---- MODULE Spec2Model ----
(***************************************************************************)
(* Invoice backend (src/main.py, src/schemas.py): the "invoice" collection *)
(* and the create / get / list / update (with optional rekey) / delete     *)
(* handlers.                                                               *)
(*                                                                         *)
(* Representation.  A stored document is a function from field names to   *)
(* values, as the Python dict is; the collection `store` maps each _id to  *)
(* its document.  Money is counted in hundredths (price 105 is 1.05),      *)
(* tax_rate in whole percent, so round(x, 2) is a rounding to an integer   *)
(* number of hundredths.  An update payload gives every optional field as  *)
(* a sequence (<<>> = not sent, <<v>> = sent with value v) and names the   *)
(* fields sent as JSON null in `nulls`.                                    *)
(*                                                                         *)
(* Spec handles one request at a time, each handler as one step (the       *)
(* handlers are coroutines that never await); resp is the answer to the    *)
(* last request.  SpecConc runs update requests on several workers, one    *)
(* step per call to the store; procs holds each worker's position and      *)
(* local variables.                                                        *)
(***************************************************************************)
EXTENDS Integers, Sequences, FiniteSets, TLC

VARIABLES store, resp, procs

vars == <<store, resp, procs>>

\* ------------------------------------------------------------------ bounds

\* An update payload of the sequential model sends at most this many of the
\* fields customer, item_name, surat_jalan_no, quantity, price, tax_rate
\* (invoice_no is counted apart).
MaxSupplied == 1

\* Number of request workers of the interleaved model.
NumWorkers == 2

\* ------------------------------------------------------------ input values

\* invoice numbers; "" is a legal str for InvoiceCreate.invoice_no
InvoiceNos == {"", "A", "B"}

\* a path parameter {invoice_no} is never the empty string
PathNos == InvoiceNos \ {""}

\* Python's None, where it is stored in a string field
None == "None"

\* The values requests carry.  On these amounts no product falls on a
\* rounding tie, so exact and floating-point rounding agree.  An update may
\* send item_name, surat_jalan_no and price only as absent (price also as
\* null); price is overridden in the interleaved model (ConcUpdate).
CreateCustomers == {"Acme"}
CreateQuantities == {-1, 1}
CreatePrices == {-100, 105}
CreateTaxRates == {-1, 11}

UpdateCustomers == {"Bolt"}
UpdateItemNames == {}
UpdateSuratJalanNos == {}
UpdateQuantities == {-1, 2}
UpdatePrices == {}
UpdateTaxRates == {12}

\* the instants datetime.utcnow() returns
Times == {"t1"}

\* ------------------------------------------------------- pure computations

\* round(num/den) to the nearest integer, ties to even (Python 3 round)
RoundHalfEven(num, den) ==
    LET q == num \div den
        r == num % den
    IN  IF 2 * r < den THEN q
        ELSE IF 2 * r > den THEN q + 1
        ELSE IF q % 2 = 0 THEN q ELSE q + 1

\* main.py 93-97; the result is in hundredths
compute_tax_and_total(quantity, price, tax_rate_percent) ==
    LET subtotal == quantity * price
        tax == RoundHalfEven(subtotal * tax_rate_percent, 100)
        total == RoundHalfEven(subtotal + tax, 1)
    IN  [tax |-> tax, total |-> total]

\* ------------------------------------------------------ the document store

\* db["invoice"].find_one({"_id": id}): <<>> is None, <<doc>> a document
find_one(coll, id) ==
    IF id \in DOMAIN coll THEN <<coll[id]>> ELSE <<>>

\* db["invoice"].insert_one(doc) with doc["_id"] = id; ok = FALSE is the
\* duplicate key error E11000
insert_one(coll, id, doc) ==
    IF id \in DOMAIN coll
    THEN [ok |-> FALSE, coll |-> coll]
    ELSE [ok |-> TRUE,
          coll |-> [k \in DOMAIN coll \cup {id} |->
                       IF k = id THEN doc ELSE coll[k]]]

\* db["invoice"].delete_one({"_id": id})
delete_one(coll, id) ==
    IF id \in DOMAIN coll
    THEN [deleted_count |-> 1,
          coll |-> [k \in DOMAIN coll \ {id} |-> coll[k]]]
    ELSE [deleted_count |-> 0, coll |-> coll]

\* variant of Merge: the document is replaced by update_data, so the fields
\* update_data does not hold are lost
MergeReplace(doc, update_data) ==
    [k \in DOMAIN update_data.vals \cup update_data.nulls |->
        IF k \in update_data.nulls THEN None ELSE update_data.vals[k]]

\* {**doc, **update_data}: the keys of update_data win, None included
Merge(doc, update_data) ==
    [k \in DOMAIN doc \cup DOMAIN update_data.vals \cup update_data.nulls |->
        IF k \in update_data.nulls THEN None
        ELSE IF k \in DOMAIN update_data.vals THEN update_data.vals[k]
        ELSE doc[k]]

\* db["invoice"].update_one({"_id": id}, {"$set": update_data})
update_one(coll, id, update_data) ==
    IF id \in DOMAIN coll
    THEN [matched_count |-> 1,
          coll |-> [coll EXCEPT ![id] = Merge(coll[id], update_data)]]
    ELSE [matched_count |-> 0, coll |-> coll]

\* ------------------------------------------------------------ request models

\* InvoiceCreate (main.py 73-80)
InvoiceCreate ==
    [invoice_no : InvoiceNos, customer : CreateCustomers,
     item_name : {"Widget"}, surat_jalan_no : {"SJ-1"},
     quantity : CreateQuantities, price : CreatePrices,
     tax_rate : CreateTaxRates]

Opt(S) == {<<>>} \cup {<<v>> : v \in S}

OtherFields ==
    {"customer", "item_name", "surat_jalan_no", "quantity", "price", "tax_rate"}

UpdateFields == OtherFields \cup {"invoice_no"}

\* the fields of payload that the request body carries (a value or null)
FieldsSet(payload) ==
    {f \in UpdateFields : Len(payload[f]) = 1} \cup payload.nulls

\* InvoiceUpdate (main.py 82-90): every field Optional, default None
InvoiceUpdate ==
    {p \in [invoice_no : Opt(InvoiceNos), customer : Opt(UpdateCustomers),
            item_name : Opt(UpdateItemNames),
            surat_jalan_no : Opt(UpdateSuratJalanNos),
            quantity : Opt(UpdateQuantities), price : Opt(UpdatePrices),
            tax_rate : Opt(UpdateTaxRates),
            nulls : SUBSET {"invoice_no", "quantity", "price", "tax_rate"}] :
        /\ \A f \in p.nulls : p[f] = <<>>
        /\ Cardinality(FieldsSet(p) \cap OtherFields) <= MaxSupplied}

\* variant of InvoiceValid: the schema without its ge=0 constraints
InvoiceValidLax(quantity, price, tax_rate, tax, total) == TRUE

\* Invoice (schemas.py 43-56): the ge=0 constraints
InvoiceValid(quantity, price, tax_rate, tax, total) ==
    /\ quantity >= 0
    /\ price >= 0
    /\ tax_rate >= 0
    /\ tax >= 0
    /\ total >= 0

Response(op, status, path) ==
    [op |-> op, status |-> status, path |-> path]

\* ------------------------------------------------------------------ create

\* main.py 104-118: the document built from a create payload; <<>> when
\* Invoice(...) raises its ValidationError
NewInvoice(payload) ==
    LET tt == compute_tax_and_total(payload.quantity, payload.price,
                                    payload.tax_rate)
    IN  IF InvoiceValid(payload.quantity, payload.price, payload.tax_rate,
                        tt.tax, tt.total)
        THEN <<[invoice_no |-> payload.invoice_no,
                customer |-> payload.customer,
                item_name |-> payload.item_name,
                surat_jalan_no |-> payload.surat_jalan_no,
                quantity |-> payload.quantity,
                price |-> payload.price,
                tax_rate |-> payload.tax_rate,
                tax |-> tt.tax,
                total |-> tt.total]>>
        ELSE <<>>

\* main.py 99-128 as a function of the collection and the request
create_invoice_result(coll, payload) ==
    LET invoice == NewInvoice(payload)
        ins == insert_one(coll, payload.invoice_no, invoice[1])
    IN  IF invoice = <<>>
        THEN [store |-> coll,
              resp |-> Response("create", 500, "")]
        ELSE IF ~ins.ok
        THEN [store |-> coll,
              resp |-> Response("create", 409, "")]
        ELSE [store |-> ins.coll,
              resp |-> Response("create", 200, "")]

\* --------------------------------------------------------------- get, list

\* main.py 137-144
GetStatus(doc) == IF doc = <<>> THEN 404 ELSE 200

\* ------------------------------------------------------------------ update

\* main.py 155: payload.model_dump(exclude_unset=True)
model_dump(payload) ==
    [vals |-> [k \in {f \in UpdateFields : Len(payload[f]) = 1} |->
                  payload[k][1]],
     nulls |-> payload.nulls]

DefaultTaxRate == 11

\* variant of Effective: the existing record's value even when the payload
\* supplies one
EffectiveStale(update_data, existing, k) ==
    IF k \in DOMAIN existing THEN existing[k] ELSE DefaultTaxRate

\* main.py 158-160: update_data.get(k, existing.get(k)), with 11.0 as the
\* last resort for tax_rate; never asked for a k that update_data holds as
\* None
Effective(update_data, existing, k) ==
    IF k \in DOMAIN update_data.vals THEN update_data.vals[k]
    ELSE IF k \in DOMAIN existing THEN existing[k]
    ELSE DefaultTaxRate

\* main.py 161: compute_tax_and_total multiplies or divides a None
TypeErrorRaised(update_data) ==
    update_data.nulls \cap {"quantity", "price", "tax_rate"} # {}

\* main.py 158-166: update_data with tax, total and updated_at added and
\* invoice_no popped
WithDerived(update_data, existing, now) ==
    LET tt == compute_tax_and_total(
                  Effective(update_data, existing, "quantity"),
                  Effective(update_data, existing, "price"),
                  Effective(update_data, existing, "tax_rate"))
        keys == (DOMAIN update_data.vals \cup {"tax", "total", "updated_at"})
                    \ {"invoice_no"}
    IN  [vals |-> [k \in keys |->
                      IF k = "tax" THEN tt.tax
                      ELSE IF k = "total" THEN tt.total
                      ELSE IF k = "updated_at" THEN now
                      ELSE update_data.vals[k]],
         nulls |-> update_data.nulls \ {"invoice_no"}]

\* main.py 166: update_data.pop("invoice_no", None); <<>> is None
PopInvoiceNo(update_data) ==
    IF "invoice_no" \in DOMAIN update_data.vals
    THEN <<update_data.vals["invoice_no"]>>
    ELSE <<>>

\* main.py 168: new_invoice_no and new_invoice_no != current_invoice_no
IsRekey(new_invoice_no, current_invoice_no) ==
    /\ new_invoice_no # <<>>
    /\ new_invoice_no[1] # ""
    /\ new_invoice_no[1] # current_invoice_no

\* variant of Conflict: the target key is never looked up
ConflictNever(coll, new_invoice_no) == FALSE

\* main.py 170-171: the target key already holds a document
Conflict(coll, new_invoice_no) ==
    find_one(coll, new_invoice_no[1]) # <<>>

\* main.py 174-177: {**existing, **update_data}; _id is the key it is
\* inserted under
NewDoc(existing, update_data) == Merge(existing, update_data)

\* main.py 146-191 as a function of the collection and the request
update_invoice_result(coll, current_invoice_no, payload, now) ==
    LET existing == find_one(coll, current_invoice_no)
        dumped == model_dump(payload)
        update_data == WithDerived(dumped, existing[1], now)
        new_invoice_no == PopInvoiceNo(dumped)
        ins == insert_one(coll, new_invoice_no[1],
                          NewDoc(existing[1], update_data))
        del == delete_one(ins.coll, current_invoice_no)
        res == update_one(coll, current_invoice_no, update_data)
    IN  IF existing = <<>>
        THEN [store |-> coll,
              resp |-> Response("update", 404, "")]
        ELSE IF TypeErrorRaised(dumped)
        THEN [store |-> coll,
              resp |-> Response("update", 500, "")]
        ELSE IF IsRekey(new_invoice_no, current_invoice_no)
        THEN IF Conflict(coll, new_invoice_no)
             THEN [store |-> coll,
                   resp |-> Response("update", 409,
                                     "rekey")]
             ELSE IF ~ins.ok
             THEN [store |-> coll,
                   resp |-> Response("update", 500,
                                     "rekey")]
             ELSE [store |-> del.coll,
                   resp |-> Response("update", 200,
                                     "rekey")]
        ELSE IF res.matched_count = 0
        THEN [store |-> res.coll,
              resp |-> Response("update", 404,
                                "regular")]
        ELSE [store |-> res.coll,
              resp |-> Response("update", 200,
                                "regular")]

\* ------------------------------------------------------------------ delete

\* variant of DeleteStatus: deleted_count is not looked at
DeleteStatusAlwaysOk(deleted_count) == 200

\* main.py 198-200
DeleteStatus(deleted_count) == IF deleted_count = 0 THEN 404 ELSE 200

\* ------------------------------------------- requests handled one at a time

Idle == [pc |-> "idle"]

Workers == 1..NumWorkers

Init ==
    /\ store = <<>>
    /\ resp = Response("none", 0, "")
    /\ procs = [w \in Workers |-> Idle]

create_invoice(payload) ==
    LET r == create_invoice_result(store, payload)
    IN  /\ store' = r.store
        /\ resp' = r.resp
        /\ UNCHANGED procs

list_invoices ==
    /\ resp' = Response("list", 200, "")
    /\ UNCHANGED <<store, procs>>

get_invoice(invoice_no) ==
    /\ resp' = Response("get", GetStatus(find_one(store, invoice_no)), "")
    /\ UNCHANGED <<store, procs>>

update_invoice(current_invoice_no, payload, now) ==
    LET r == update_invoice_result(store, current_invoice_no, payload, now)
    IN  /\ store' = r.store
        /\ resp' = r.resp
        /\ UNCHANGED procs

delete_invoice(invoice_no) ==
    LET result == delete_one(store, invoice_no)
    IN  /\ store' = result.coll
        /\ resp' = Response("delete", DeleteStatus(result.deleted_count), "")
        /\ UNCHANGED procs

Next ==
    \/ \E payload \in InvoiceCreate : create_invoice(payload)
    \/ list_invoices
    \/ \E invoice_no \in PathNos : get_invoice(invoice_no)
    \/ \E current_invoice_no \in PathNos, payload \in InvoiceUpdate,
          now \in Times :
          update_invoice(current_invoice_no, payload, now)
    \/ \E invoice_no \in PathNos : delete_invoice(invoice_no)

Spec == Init /\ [][Next]_vars

\* --------------------------------------- update requests handled in parallel
\* Each worker handles one update request; every call to the store is one
\* atomic step and the workers' steps interleave (spec section 5).

ConcPathNos == {"A", "B"}

ConcTargets == {"B", "C"}

\* the update payloads of the interleaved model
ConcUpdate ==
    {p \in [invoice_no : Opt(ConcTargets), customer : {<<>>},
            item_name : {<<>>}, surat_jalan_no : {<<>>},
            quantity : Opt({2}), price : Opt({200}), tax_rate : {<<>>},
            nulls : {{}}] :
        Cardinality(FieldsSet(p) \cap OtherFields) <= MaxSupplied}

\* the record the interleaved model starts with: POST /api/invoices of "A"
FirstInvoice ==
    [invoice_no |-> "A", customer |-> "Acme", item_name |-> "Widget",
     surat_jalan_no |-> "SJ-1", quantity |-> 1, price |-> 105,
     tax_rate |-> 11]

InitConc ==
    /\ store = create_invoice_result(<<>>, FirstInvoice).store
    /\ resp = create_invoice_result(<<>>, FirstInvoice).resp
    /\ procs = [w \in Workers |-> Idle]

Done(status) == [pc |-> "done", status |-> status]

\* main.py 151-168: find_one, then the local computation up to the branch
upd_find(w, current_invoice_no, payload, now) ==
    LET existing == find_one(store, current_invoice_no)
        dumped == model_dump(payload)
        new_invoice_no == PopInvoiceNo(dumped)
    IN  /\ procs[w].pc = "idle"
        /\ procs' = [procs EXCEPT ![w] =
              IF existing = <<>> THEN Done(404)
              ELSE IF TypeErrorRaised(dumped) THEN Done(500)
              ELSE [pc |-> IF IsRekey(new_invoice_no, current_invoice_no)
                           THEN "conflict" ELSE "set",
                    current_invoice_no |-> current_invoice_no,
                    existing |-> existing[1],
                    update_data |-> WithDerived(dumped, existing[1], now),
                    new_invoice_no |-> new_invoice_no]]
        /\ UNCHANGED <<store, resp>>

\* main.py 170-172
upd_conflict(w) ==
    /\ procs[w].pc = "conflict"
    /\ procs' = [procs EXCEPT ![w] =
          IF Conflict(store, procs[w].new_invoice_no)
          THEN Done(409)
          ELSE [procs[w] EXCEPT !.pc = "insert"]]
    /\ UNCHANGED <<store, resp>>

\* main.py 174-179, and 181-182 when insert_one raises
upd_insert(w) ==
    LET ins == insert_one(store, procs[w].new_invoice_no[1],
                          NewDoc(procs[w].existing, procs[w].update_data))
    IN  /\ procs[w].pc = "insert"
        /\ store' = ins.coll
        /\ procs' = [procs EXCEPT ![w] =
              IF ins.ok THEN [procs[w] EXCEPT !.pc = "delete"]
              ELSE Done(500)]
        /\ UNCHANGED resp

\* main.py 180: the result of delete_one is not looked at
upd_delete(w) ==
    /\ procs[w].pc = "delete"
    /\ store' = delete_one(store, procs[w].current_invoice_no).coll
    /\ procs' = [procs EXCEPT ![w].pc = "created"]
    /\ UNCHANGED resp

\* main.py 183-184
upd_created(w) ==
    /\ procs[w].pc = "created"
    /\ procs' = [procs EXCEPT ![w] = Done(200)]
    /\ UNCHANGED <<store, resp>>

\* main.py 187-189
upd_set(w) ==
    LET res == update_one(store, procs[w].current_invoice_no,
                          procs[w].update_data)
    IN  /\ procs[w].pc = "set"
        /\ store' = res.coll
        /\ procs' = [procs EXCEPT ![w] =
              IF res.matched_count = 0 THEN Done(404)
              ELSE [procs[w] EXCEPT !.pc = "reread"]]
        /\ UNCHANGED resp

\* main.py 190-191
upd_reread(w) ==
    /\ procs[w].pc = "reread"
    /\ procs' = [procs EXCEPT ![w] = Done(200)]
    /\ UNCHANGED <<store, resp>>

NextConc ==
    \E w \in Workers :
        \/ \E current_invoice_no \in ConcPathNos, payload \in ConcUpdate,
              now \in Times :
              upd_find(w, current_invoice_no, payload, now)
        \/ upd_conflict(w)
        \/ upd_insert(w)
        \/ upd_delete(w)
        \/ upd_created(w)
        \/ upd_set(w)
        \/ upd_reread(w)

SpecConc == InitConc /\ [][NextConc]_vars

\* ------------------------------------------------------------------ claims

Live == DOMAIN store

NumericNulls(payload) ==
    payload.nulls \cap {"quantity", "price", "tax_rate"}

\* tax and total of doc are the ones its own quantity, price and tax_rate give
Consistent(doc) ==
    LET subtotal == doc.quantity * doc.price
        tax == RoundHalfEven(subtotal * doc.tax_rate, 100)
    IN  /\ doc.tax = tax
        /\ doc.total = RoundHalfEven(subtotal + tax, 1)

\* C1: after any sequence of completed create, update, rekeying update and
\* delete requests, every live record has tax = round(quantity * price *
\* tax_rate / 100, 2) and total = round(quantity * price + tax, 2), computed
\* from that record's current quantity, price and tax_rate.
C1_DerivedConsistent ==
    \A k \in Live : Consistent(store[k])

\* C1 witness: a rekeying update that also changed the quantity has completed
\* and the record it moved carries the recomputed tax.
C1_Witness ==
    /\ resp = Response("update", 200, "rekey")
    /\ \E k \in Live :
          /\ store[k].invoice_no # k
          /\ store[k].quantity = 2
          /\ store[k].tax = 23
          /\ "updated_at" \in DOMAIN store[k]

\* C2: every live record has quantity, price, tax_rate, tax and total all
\* non-negative, whatever a create or update request supplies.
C2_NonNegative ==
    \A k \in Live :
        /\ store[k].quantity >= 0
        /\ store[k].price >= 0
        /\ store[k].tax_rate >= 0
        /\ store[k].tax >= 0
        /\ store[k].total >= 0

\* C3: every live record's invoice_no field equals the key it is stored
\* under, so no two live records carry the same invoice_no.
C3_InvoiceNoIsKey ==
    /\ \A k \in Live : store[k].invoice_no = k
    /\ \A j, k \in Live : store[j].invoice_no = store[k].invoice_no => j = k

\* C4 as claimed: a create request whose invoice_no is the key of a live
\* record fails with 409 and leaves the store unchanged.
C4_CreateOnLiveKeyConflict ==
    \A payload \in InvoiceCreate :
        payload.invoice_no \in Live =>
            LET r == create_invoice_result(store, payload)
            IN  r.store = store /\ r.resp.status = 409

\* C4 as amended: a create request whose invoice_no is the key of a live
\* record leaves the store unchanged; it fails with 409 when its quantity,
\* price and tax_rate are all non-negative and with 500 (the schema's
\* validation error) when one of them is negative.
C4_CreateOnLiveKey ==
    \A payload \in InvoiceCreate :
        payload.invoice_no \in Live =>
            LET r == create_invoice_result(store, payload)
                valid == /\ payload.quantity >= 0
                         /\ payload.price >= 0
                         /\ payload.tax_rate >= 0
            IN  /\ r.store = store
                /\ r.resp.status = IF valid THEN 409 ELSE 500

\* C4 witness: a create request has just been refused with 409 and the
\* record it collided with is live.
C4_Witness ==
    /\ resp = Response("create", 409, "")
    /\ Live # {}

\* C5: get, update (any payload, a rekey request included) and delete
\* addressed to an invoice_no that is not the key of a live record fail with
\* 404 and leave the store unchanged.
C5_AbsentKeyNotFound ==
    \A k \in InvoiceNos \ Live :
        /\ GetStatus(find_one(store, k)) = 404
        /\ \A payload \in InvoiceUpdate, now \in Times :
              LET r == update_invoice_result(store, k, payload, now)
              IN  r.store = store /\ r.resp.status = 404
        /\ LET result == delete_one(store, k)
           IN  /\ result.coll = store
               /\ DeleteStatus(result.deleted_count) = 404

\* C5 witness: a request on an absent key was answered 404 while another
\* record is live.
C5_Witness ==
    /\ resp.op \in {"update", "delete"}
    /\ resp.status = 404
    /\ Live # {}
    /\ PathNos \ Live # {}

\* the payload asks for a target key that differs from the current one and
\* is the key of a live record
TargetsLiveKey(payload, cur) ==
    /\ payload.invoice_no # <<>>
    /\ payload.invoice_no[1] # cur
    /\ payload.invoice_no[1] \in Live

\* C6 as claimed: an update on a live key that supplies a different
\* invoice_no which is the key of another live record fails with 409 and
\* leaves the store untouched.
C6_RekeyToLiveKeyConflict ==
    \A cur \in Live, payload \in InvoiceUpdate, now \in Times :
        TargetsLiveKey(payload, cur) =>
            LET r == update_invoice_result(store, cur, payload, now)
            IN  r.store = store /\ r.resp.status = 409

\* C6 as amended: an update on a live key that supplies a different,
\* non-empty invoice_no which is the key of another live record fails and
\* leaves the store untouched; the failure is 409, or 500 when the payload
\* carries a null quantity, price or tax_rate.
C6_RekeyToLiveKey ==
    \A cur \in Live, payload \in InvoiceUpdate, now \in Times :
        (TargetsLiveKey(payload, cur) /\ payload.invoice_no[1] # "") =>
            LET r == update_invoice_result(store, cur, payload, now)
            IN  /\ r.store = store
                /\ r.resp.status =
                      IF NumericNulls(payload) = {} THEN 409 ELSE 500

\* C6 witness: a rekeying update has just been refused with 409 and two
\* records are live.
C6_Witness ==
    /\ resp = Response("update", 409, "rekey")
    /\ Cardinality(Live) >= 2

\* the document the claim expects at the target key: the old record's fields
\* overridden by every field the payload supplies, tax and total recomputed
\* from the overridden values, updated_at set
ExpectedRekeyed(old, payload, now) ==
    LET over(f) == IF payload[f] # <<>> THEN payload[f][1] ELSE old[f]
        subtotal == over("quantity") * over("price")
        tax == RoundHalfEven(subtotal * over("tax_rate"), 100)
    IN  [invoice_no |-> over("invoice_no"),
         customer |-> over("customer"),
         item_name |-> over("item_name"),
         surat_jalan_no |-> over("surat_jalan_no"),
         quantity |-> over("quantity"),
         price |-> over("price"),
         tax_rate |-> over("tax_rate"),
         tax |-> tax,
         total |-> RoundHalfEven(subtotal + tax, 1),
         updated_at |-> now]

\* C7: an update on a live key that supplies a different invoice_no which is
\* not the key of a live record succeeds; afterwards the new key holds the old
\* record's fields overridden by every supplied field (tax and total
\* recomputed, updated_at set), the old key is absent and every other record
\* is unchanged.  Payloads with a null field are left out here.
C7_RekeyToFreshKey ==
    \A cur \in Live, payload \in InvoiceUpdate, now \in Times :
        (/\ payload.invoice_no # <<>>
         /\ payload.invoice_no[1] \notin Live \cup {cur, ""}
         /\ payload.nulls = {}) =>
            LET r == update_invoice_result(store, cur, payload, now)
                new == payload.invoice_no[1]
            IN  /\ r.resp.status = 200
                /\ DOMAIN r.store = (Live \ {cur}) \cup {new}
                /\ \A k \in Live \ {cur} : r.store[k] = store[k]
                /\ r.store[new] = ExpectedRekeyed(store[cur], payload, now)

\* the update takes the regular path: no invoice_no, a null one, the current
\* one, or the empty string
RegularRequest(payload, cur) ==
    \/ payload.invoice_no = <<>>
    \/ payload.invoice_no[1] \in {cur, ""}

Derived == {"tax", "total", "updated_at"}

\* C8: a regular update on a live record changes only the fields the payload
\* supplies plus tax, total and updated_at; the key, every field not supplied
\* and every other record keep their values; an update that supplies only
\* customer leaves quantity, price, tax_rate, tax and total as they were.
C8_RegularUpdateFrame ==
    \A cur \in Live, payload \in InvoiceUpdate, now \in Times :
        RegularRequest(payload, cur) =>
            LET r == update_invoice_result(store, cur, payload, now)
                kept == DOMAIN store[cur] \ (FieldsSet(payload) \cup Derived)
            IN  /\ NumericNulls(payload) = {} =>
                      r.resp = Response("update", 200, "regular")
                /\ DOMAIN r.store = Live
                /\ \A k \in Live \ {cur} : r.store[k] = store[k]
                /\ kept \subseteq DOMAIN r.store[cur]
                /\ \A f \in kept : r.store[cur][f] = store[cur][f]
                /\ FieldsSet(payload) \subseteq {"customer", "invoice_no"} =>
                      \A f \in {"quantity", "price", "tax_rate", "tax",
                                "total"} :
                          r.store[cur][f] = store[cur][f]

\* C8 witness: a regular update that changed the customer alone has completed
\* on a record that keeps its creation-time quantity, price and tax.
C8_Witness ==
    /\ resp = Response("update", 200, "regular")
    /\ \E k \in Live :
          /\ store[k].customer = "Bolt"
          /\ store[k].quantity = 1
          /\ store[k].price = 105
          /\ store[k].tax = 12
          /\ "updated_at" \in DOMAIN store[k]

AllDone == \A w \in Workers : procs[w].pc = "done"

\* C9: once two interleaved update requests on the same invoice_no have both
\* completed, the stored record's tax and total are consistent with its own
\* quantity, price and tax_rate.
C9_ConsistentAfterInterleaving ==
    AllDone => \A k \in Live : Consistent(store[k])

\* C10: a rekey moves a record and never duplicates it: once every request
\* has completed, the one record created has at most one live descendant.
C10_RekeyNeverDuplicates ==
    AllDone => Cardinality(Live) <= 1

====
